---- MODULE Spec2Model ----
(***************************************************************************)
(* Model of reef's endpoint compiler and request dispatcher                *)
(* (src/src/helpers/base-controller.class.ts), of its caster registry      *)
(* (src/src/helpers/default-casters.helper.ts) and of the @Log method      *)
(* decorator (src/decorators/log.decorator.ts).                            *)
(*                                                                         *)
(* JavaScript values are records [t, s, id]: t is the runtime type, s the  *)
(* result of String(value) for a primitive and the message for an Error,   *)
(* id the object identity of an Error ("-" for a primitive).  An optional  *)
(* value (a variable that may never have been assigned, a promise that may *)
(* or may not be rejected) is a sequence of length 0 or 1.                 *)
(***************************************************************************)
EXTENDS Integers, Sequences, FiniteSets, TLC

VARIABLES
    route,      \* what createEndpointFunc closes over for the compiled endpoint
    live,       \* the requests the transport delivers to the dispatch handler
    task,       \* per request: position and locals of actualEndpointController / tackerFunc
    req,        \* per request: the express Request (its reef state bag)
    res,        \* per request: the express Response (header x-trace-id, res.json calls)
    log,        \* per request: what was written to the loggers obtained with getLogger
    nextCalls,  \* per request: the values passed to next(err)
    hist,       \* per request: history of what the collaborators did (raised errors, extractor results, handler calls)
    controller, \* the controller being compiled: its descriptor and its endpoint descriptors
    compile,    \* position of createEndpoints in its loop
    router,     \* the registrations made on the express.Router of createEndpoints
    app,        \* the routers mounted on the express application
    generatorCalls, \* the calls of getMiddleware the middleware generator received
    sharedList, \* the elements of the list object a generator keeps and returns from every call
    castCall,   \* a call of DefaultCasters.cast: its arguments and, once made, its outcome
    logCall,    \* a call of a method wrapped by @Log: its position, arguments and log lines
    metadata    \* what Reflect holds for one method its parameters are decorated with @Logger

cvars == <<controller, compile, router, app, generatorCalls, sharedList>>
uvars == <<castCall, logCall, metadata>>
rvars == <<route, live, task, req, res, log, nextCalls, hist>>
vars == <<route, live, task, req, res, log, nextCalls, hist, controller, compile, router, app,
          generatorCalls, sharedList, castCall, logCall, metadata>>

----------------------------------------------------------------------------
(* Bounds *)

MaxParams == 3
NumReq == 2
MaxWords == 3
MaxHooks == 2
MaxEndpoints == 2
MaxSymbols == 2
MaxText == 2

Req == 1..NumReq

----------------------------------------------------------------------------
(* JavaScript values *)

ErrorObj(id, msg) == [t |-> "Error", s |-> msg, id |-> id]
Prim(t, s) == [t |-> t, s |-> s, id |-> "-"]
Undefined == Prim("undefined", "undefined")

\* Values a collaborator (extractor, handler, res.json, trace-id function) may
\* throw or reject with: an Error instance and non-error values, falsy ones included.
Thrown ==
    { ErrorObj("E1", "fail"),
      Prim("string", "boom"), Prim("string", ""), Prim("number", "0"),
      Prim("null", "null"), Undefined, Prim("symbol", "Symbol()") }

\* Values a handler may return or resolve with.
DataVals == { Prim("object", "[object Object]"), Undefined }

\* Values an extractor may produce.
ArgVals == { "a", "b" }

TraceIds == { "T1", "T2" }

instanceofError(v) == v.t = "Error"

\* ToBoolean
Truthy(v) ==
    CASE v.t = "undefined" -> FALSE
      [] v.t = "null" -> FALSE
      [] v.t = "string" -> v.s # ""
      [] v.t = "number" -> v.s # "0"
      [] OTHER -> TRUE

\* ToString, as a template literal or the Error constructor applies it: it throws
\* a TypeError for a Symbol.
ToStringThrows(v) == v.t = "symbol"
ToStringOf(v) == v.s
TypeErr == ErrorObj("TypeError", "Cannot convert a Symbol value to a string")

----------------------------------------------------------------------------
(* handleResponseError and the two places that create an Error *)

\* new Error(err): the message is ToString(err), except that an undefined
\* argument leaves the message to Error.prototype.message, the empty string.
newError(err) ==
    ErrorObj("new", IF err.t = "undefined" THEN "" ELSE ToStringOf(err))

\* History of a handleResponseError call that reached next: what it was given and
\* what it passed on.
forwardedBy(err, eff) ==
    IF eff.next = <<>> THEN <<>> ELSE <<[caught |-> err, sent |-> eff.next[1]]>>

\* handleResponseError(err, req, res, next, logger): what it logs at error level,
\* what it passes to next, and what it throws (the template literal and the Error
\* constructor both throw on a Symbol, before next is reached).
handleResponseError(err) ==
    IF instanceofError(err)
    THEN [errorLog |-> <<>>, next |-> <<err>>, exc |-> <<>>]
    ELSE IF ToStringThrows(err)
    THEN [errorLog |-> <<>>, next |-> <<>>, exc |-> <<TypeErr>>]
    ELSE [errorLog |-> <<ToStringOf(err)>>, next |-> <<newError(err)>>, exc |-> <<>>]

----------------------------------------------------------------------------
(* Parameter-binding lists and getEndpointInputVars *)

Hole == [hole |-> TRUE, index |-> -1]
Desc(i) == [hole |-> FALSE, index |-> i]

MetaLen(m) == Cardinality(DOMAIN m)

\* The lists the decorators and the data model allow: array positions 0..n-1, each
\* a hole or a descriptor; no two descriptors share an index, and a hole stands at
\* exactly the positions that no descriptor binds.  The descriptors may be stored
\* in any order among the bound positions.
MetaLists ==
    UNION { { m \in [0..(n - 1) -> {Hole} \cup {Desc(i) : i \in 0..(n - 1)}] :
                /\ \A p, q \in DOMAIN m :
                     (~m[p].hole /\ ~m[q].hole /\ p # q) => m[p].index # m[q].index
                /\ \A p \in DOMAIN m : ~m[p].hole => ~m[m[p].index].hole }
            : n \in 0..MaxParams }

\* if (!endpointParamMeta) endpointParamMeta = []
effectiveMeta(rt) == IF rt.metaAbsent THEN [i \in {} |-> Hole] ELSE rt.meta

\* Array(endpointParamMeta.length)
newArray(n) == [i \in 0..(n - 1) |-> <<>>]

\* Faulty variant: a hole ends the loop (break for continue).
loopFrom_break(m, i) ==
    IF i >= MetaLen(m) THEN [warns |-> <<>>, at |-> i]
    ELSE IF m[i].hole THEN [warns |-> <<i>>, at |-> MetaLen(m)]
    ELSE [warns |-> <<>>, at |-> i]

\* One run of the for loop from position i up to its next await: the warnings it
\* logs for the holes it skips and the position of the descriptor whose
\* extractor it calls (the length when the loop ends).
RECURSIVE loopFrom(_, _)
loopFrom(m, i) ==
    IF i >= MetaLen(m) THEN [warns |-> <<>>, at |-> i]
    ELSE IF m[i].hole
         THEN LET rest == loopFrom(m, i + 1)
              IN  [warns |-> <<i>> \o rest.warns, at |-> rest.at]
         ELSE [warns |-> <<>>, at |-> i]

\* Faulty variant: the value is stored at the descriptor's position in the list.
setInputVar_byPosition(inputVars, meta, pos, v) ==
    [i \in (DOMAIN inputVars) \cup (0..pos) |->
        IF i = pos THEN <<v>>
        ELSE IF i \in DOMAIN inputVars THEN inputVars[i] ELSE <<>>]

\* inputVars[meta.index] = <value>
setInputVar(inputVars, meta, pos, v) ==
    [i \in (DOMAIN inputVars) \cup (0..meta.index) |->
        IF i = meta.index THEN <<v>>
        ELSE IF i \in DOMAIN inputVars THEN inputVars[i] ELSE <<>>]

\* endpointFunc(...endpointVars): a spread reads a hole as undefined.
spreadArgs(inputVars) ==
    [i \in DOMAIN inputVars |-> IF inputVars[i] = <<>> THEN "undefined" ELSE inputVars[i][1]]

----------------------------------------------------------------------------
(* handleResponse's callbacks *)

\* .finally: if (endpointErr) ... else ...; endpointErr is undefined until the
\* .catch callback assigns it.
finallyLog(endpointErr) ==
    IF endpointErr # <<>> /\ Truthy(endpointErr[1]) THEN "threw" ELSE "responded"

----------------------------------------------------------------------------
(* Strings of the endpoint compiler: sequences of characters *)

kwGet == <<"g", "e", "t">>
kwList == <<"l", "i", "s", "t">>
kwUpdate == <<"u", "p", "d", "a", "t", "e">>
kwDelete == <<"d", "e", "l", "e", "t", "e">>
kwCreate == <<"c", "r", "e", "a", "t", "e">>
strUndefined == <<"u", "n", "d", "e", "f", "i", "n", "e", "d">>

\* String.prototype.includes
includes(str, sub) ==
    \E i \in 0..(Len(str) - Len(sub)) : SubSeq(str, i + 1, i + Len(sub)) = sub

\* Faulty variant: the pattern without its g flag, only the first run of
\* separators is collapsed.
collapseSlashes_first(str) ==
    IF \A i \in 1..Len(str) : str[i] # "/" THEN str
    ELSE LET b == CHOOSE i \in 1..Len(str) :
                      str[i] = "/" /\ \A j \in 1..(i - 1) : str[j] # "/"
             e == CHOOSE i \in b..Len(str) :
                      /\ \A j \in b..i : str[j] = "/"
                      /\ (i = Len(str) \/ str[i + 1] # "/")
         IN  SubSeq(str, 1, b) \o SubSeq(str, e + 1, Len(str))

\* str.replace(/\/+/g, '/'): every run of separators becomes one separator.
RECURSIVE collapseSlashes(_)
collapseSlashes(str) ==
    IF Len(str) = 0 THEN <<>>
    ELSE IF Len(str) >= 2 /\ str[1] = "/" /\ str[2] = "/"
         THEN collapseSlashes(Tail(str))
         ELSE <<str[1]>> \o collapseSlashes(Tail(str))

\* REST_METHODS, and toUpperCase on its values.
RestMethods == {"get", "post", "put", "patch", "delete"}
toUpperCase(method) ==
    CASE method = "get" -> "GET"
      [] method = "post" -> "POST"
      [] method = "put" -> "PUT"
      [] method = "patch" -> "PATCH"
      [] method = "delete" -> "DELETE"

\* getMethod(endpointPath): four independent if statements, each overwriting the
\* method chosen by the ones before it.
getMethod(endpointPath) ==
    LET m0 == "post"
        m1 == IF includes(endpointPath, kwGet) \/ includes(endpointPath, kwList) THEN "get" ELSE m0
        m2 == IF includes(endpointPath, kwUpdate) THEN "patch" ELSE m1
        m3 == IF includes(endpointPath, kwDelete) THEN "delete" ELSE m2
        m4 == IF includes(endpointPath, kwCreate) THEN "post" ELSE m3
    IN  m4

\* Template literal: an undefined base path is written as "undefined".
basePathText(ctl) == IF ctl.basePath = <<>> THEN strUndefined ELSE ctl.basePath[1]

\* Lines 100-101: `${basePath}/${endpoint.path}`, then a leading slash and the
\* collapse of repeated slashes.
endpointFullPath(ctl, ep) ==
    collapseSlashes(<<"/">> \o basePathText(ctl) \o <<"/">> \o ep.path)

\* Line 102: (method || this.getMethod(endpoint.path)).toUpperCase(); a missing
\* method is the empty text here.
endpointVerb(ep) ==
    toUpperCase(IF ep.method # "" THEN ep.method ELSE getMethod(ep.path))

----------------------------------------------------------------------------
(* DefaultCasters (src/src/helpers/default-casters.helper.ts) *)

\* The values handed to a caster are records [t, str, num, bool, cls]: t is the
\* kind of value ("NaN" for the number NaN), str the characters of a string,
\* num the value of a number, bool the value of a boolean, cls the class of an
\* object.
jsValue(t, str, num, bool, cls) ==
    [t |-> t, str |-> str, num |-> num, bool |-> bool, cls |-> cls]
jsUndefined == jsValue("undefined", <<>>, 0, FALSE, "")
jsNull == jsValue("null", <<>>, 0, FALSE, "")
jsNaN == jsValue("NaN", <<>>, 0, FALSE, "")
jsBool(b) == jsValue("boolean", <<>>, 0, b, "")
jsNum(n) == jsValue("number", <<>>, n, FALSE, "")
jsStr(str) == jsValue("string", str, 0, FALSE, "")
jsObj(cls) == jsValue("object", <<>>, 0, FALSE, cls)

\* typeof
typeofValue(v) ==
    CASE v.t = "null" -> "object"
      [] v.t = "NaN" -> "number"
      [] OTHER -> v.t

\* value instanceof type: false for every primitive.
instanceOf(v, type) == v.t = "object" /\ (v.cls = type \/ type = "Object")

Digits == <<"0", "1", "2", "3", "4", "5", "6", "7", "8", "9">>
isDigit(c) == \E i \in DOMAIN Digits : Digits[i] = c
digitValue(c) == (CHOOSE i \in DOMAIN Digits : Digits[i] = c) - 1

RECURSIVE decimalValue(_)
decimalValue(digits) ==
    IF digits = <<>> THEN 0
    ELSE decimalValue(SubSeq(digits, 1, Len(digits) - 1)) * Len(Digits)
         + digitValue(digits[Len(digits)])

\* String(n) for an integer n.
RECURSIVE decimalText(_)
decimalText(n) ==
    IF n < 0 THEN <<"-">> \o decimalText(0 - n)
    ELSE IF n < Len(Digits) THEN <<Digits[n + 1]>>
    ELSE decimalText(n \div Len(Digits)) \o <<Digits[(n % Len(Digits)) + 1]>>

\* White space is stripped from both ends of a string before it is read as a
\* number.
RECURSIVE trim(_)
trim(str) ==
    IF str = <<>> THEN <<>>
    ELSE IF str[1] = " " THEN trim(Tail(str))
    ELSE IF str[Len(str)] = " " THEN trim(SubSeq(str, 1, Len(str) - 1))
    ELSE str

\* Number(string): the empty and the white-space-only string are 0, a signed
\* run of digits is its value, any other text of these characters is NaN.
stringToNumber(str) ==
    LET t == trim(str)
        signed == t # <<>> /\ t[1] \in {"-", "+"}
        digits == IF signed THEN Tail(t) ELSE t
    IN  IF t = <<>> THEN jsNum(0)
        ELSE IF digits # <<>> /\ \A i \in DOMAIN digits : isDigit(digits[i])
        THEN jsNum(IF t[1] = "-" THEN 0 - decimalValue(digits) ELSE decimalValue(digits))
        ELSE jsNaN

\* Number(input), line 25.  A plain object is read through its string
\* "[object Object]", an empty array through "".
toNumber(input) ==
    CASE input.t = "undefined" -> jsNaN
      [] input.t = "null" -> jsNum(0)
      [] input.t = "boolean" -> jsNum(IF input.bool THEN 1 ELSE 0)
      [] input.t = "number" -> input
      [] input.t = "NaN" -> jsNaN
      [] input.t = "string" -> stringToNumber(input.str)
      [] input.t = "object" -> IF input.cls = "Array" THEN jsNum(0) ELSE jsNaN

\* String(input) for a string or a number, lines 37 and 40.
toText(input) ==
    CASE input.t = "string" -> input.str
      [] input.t = "number" -> decimalText(input.num)
      [] input.t = "NaN" -> <<"N", "a", "N">>

UpperCase == <<"A", "B", "C", "D", "E", "F", "G", "H", "I", "J", "K", "L", "M",
               "N", "O", "P", "Q", "R", "S", "T", "U", "V", "W", "X", "Y", "Z">>
LowerCase == <<"a", "b", "c", "d", "e", "f", "g", "h", "i", "j", "k", "l", "m",
               "n", "o", "p", "q", "r", "s", "t", "u", "v", "w", "x", "y", "z">>

lowerChar(c) ==
    IF \E i \in DOMAIN UpperCase : UpperCase[i] = c
    THEN LowerCase[CHOOSE i \in DOMAIN UpperCase : UpperCase[i] = c]
    ELSE c

\* String.prototype.toLowerCase
toLowerCase(str) == [i \in DOMAIN str |-> lowerChar(str[i])]

\* What a call ends with: a returned value or a thrown error.
NoError == [code |-> "", param |-> "", type |-> ""]
Return(v) == [kind |-> "return", v |-> v, err |-> NoError]
Throw(code, param, type) ==
    [kind |-> "throw", v |-> jsUndefined, err |-> [code |-> code, param |-> param, type |-> type]]

\* Lines 24-30.
Number(input) ==
    LET transformed == toNumber(input)
    IN  IF transformed.t = "NaN" THEN Throw("cannot_cast", "", "") ELSE Return(transformed)

TrueTexts == { <<"1">>, <<"t", "r", "u", "e">>, <<"t">> }
FalseTexts == { <<"0">>, <<"f", "a", "l", "s", "e">>, <<"f">> }

\* Faulty variant: the text is compared as it is written.
Boolean_caseSensitive(input) ==
    IF typeofValue(input) = "boolean" THEN Return(input)
    ELSE IF typeofValue(input) \notin {"string", "number"} THEN Throw("cannot_cast", "", "")
    ELSE IF toText(input) \in TrueTexts THEN Return(jsBool(TRUE))
    ELSE IF toText(input) \in FalseTexts THEN Return(jsBool(FALSE))
    ELSE Throw("cannot_cast", "", "")

\* Lines 32-44.
Boolean(input) ==
    IF typeofValue(input) = "boolean" THEN Return(input)
    ELSE IF typeofValue(input) \notin {"string", "number"} THEN Throw("cannot_cast", "", "")
    ELSE IF toLowerCase(toText(input)) \in TrueTexts THEN Return(jsBool(TRUE))
    ELSE IF toLowerCase(toText(input)) \in FalseTexts THEN Return(jsBool(FALSE))
    ELSE Throw("cannot_cast", "", "")

\* The coercions DefaultCasters has a method for.
Coercions == {"Number", "Boolean"}

\* Lines 8-22.  meta.type is null (<<>>) or a class (<<its name>>); reading
\* the name of a null type is a TypeError, thrown outside the try block.  Any
\* error of the coercion is replaced by invalid_param_type.
cast(meta, rawValue) ==
    IF ~meta.cast THEN Return(rawValue)
    ELSE IF meta.type = <<>> THEN Throw("TypeError", "", "")
    ELSE IF meta.type[1] \notin Coercions THEN Return(rawValue)
    ELSE IF instanceOf(rawValue, meta.type[1]) THEN Return(rawValue)
    ELSE IF rawValue = jsUndefined THEN Return(jsUndefined)
    ELSE LET coerced == IF meta.type[1] = "Number" THEN Number(rawValue)
                        ELSE Boolean(rawValue)
         IN  IF coerced.kind = "throw"
             THEN Throw("invalid_param_type", meta.name, meta.type[1])
             ELSE coerced

\* The texts made of at most n of the given words.
RECURSIVE TextsOf(_, _)
TextsOf(words, n) ==
    IF n = 0 THEN {<<>>}
    ELSE LET shorter == TextsOf(words, n - 1)
         IN  shorter \cup { t \o w : t \in shorter, w \in words }

\* The raw values and descriptors cast is called with.
TextPieces ==
    { <<"4">>, <<"2">>, <<" ">>, <<"a">>, <<"-">>, <<"1">>, <<"0">>,
      <<"t">>, <<"T">>, <<"r", "u", "e">>, <<"R", "U", "E">>,
      <<"f">>, <<"F">>, <<"a", "l", "s", "e">> }

RawValues ==
    {jsUndefined, jsNull, jsNaN, jsBool(TRUE), jsBool(FALSE)}
    \cup { jsNum(n) : n \in {0 - 1, 0, 1, 2, 42} }
    \cup { jsStr(str) : str \in TextsOf(TextPieces, MaxText) }
    \cup { jsObj(cls) : cls \in {"Object", "Array", "Number", "Boolean"} }

ParamMetas ==
    [name : {"id"}, type : {<<>>, <<"Number">>, <<"Boolean">>, <<"String">>}, cast : BOOLEAN]

NoCast ==
    [meta |-> [name |-> "", type |-> <<>>, cast |-> FALSE], rawValue |-> jsUndefined,
     result |-> <<>>]

\* An extractor calls casters.cast(meta, rawValue).
Cast ==
    /\ castCall.result = <<>>
    /\ castCall.meta.name # ""
    /\ castCall' = [castCall EXCEPT !.result = <<cast(castCall.meta, castCall.rawValue)>>]
    /\ UNCHANGED <<rvars, cvars, logCall, metadata>>

----------------------------------------------------------------------------
(* The @Log method decorator (src/decorators/log.decorator.ts) *)

\* Line 27, args[loggerParamIndex] = logger, as the wrapped method then sees
\* the spread arguments.  With no index stored the key is "undefined" and no
\* position changes; an index past the end lengthens the array, the positions
\* in between reading as undefined.
injectLogger(args, loggerParamIndex) ==
    IF loggerParamIndex = <<>> THEN args
    ELSE [i \in 1..(IF loggerParamIndex[1] + 1 > Len(args)
                    THEN loggerParamIndex[1] + 1 ELSE Len(args)) |->
            IF i = loggerParamIndex[1] + 1 THEN "logger"
            ELSE IF i <= Len(args) THEN args[i]
            ELSE "undefined"]

\* What the wrapped method does when it is called.
Behaviours == {"returns", "fulfils", "rejects", "throws"}

\* The calls of a wrapped method: up to MaxParams arguments, and the logger
\* index stored for the method, if any.
LogCalls ==
    [pc : {"idle"},
     args : UNION { [1..n -> {"a"}] : n \in 0..MaxParams },
     loggerParamIndex : {<<>>} \cup { <<i>> : i \in 0..(MaxParams - 1) },
     behaviour : Behaviours,
     passed : {<<>>},
     lines : {<<>>}]

NoLogCall ==
    [pc |-> "none", args |-> <<>>, loggerParamIndex |-> <<>>, behaviour |-> "returns",
     passed |-> <<>>, lines |-> <<>>]

\* Lines 21-32, the wrapper is called: the logger is injected, "invoked" is
\* logged and the method is called.  When the method throws, the wrapper ends
\* there with that exception; otherwise its result goes through
\* Promise.resolve, with one fulfilment callback attached.
LogInvoke ==
    /\ logCall.pc = "idle"
    /\ logCall' = [logCall EXCEPT
            !.lines = Append(@, "invoked"),
            !.passed = <<injectLogger(logCall.args, logCall.loggerParamIndex)>>,
            !.pc = CASE logCall.behaviour = "throws" -> "threw"
                     [] logCall.behaviour = "returns" -> "resolved"
                     [] OTHER -> "pending"]
    /\ UNCHANGED <<rvars, cvars, castCall, metadata>>

\* The promise the method returned settles.  A rejection rejects the promise
\* .then returned; the fulfilment callback is not called.
LogSettle ==
    /\ logCall.pc = "pending"
    /\ logCall' = [logCall EXCEPT
            !.pc = IF logCall.behaviour = "fulfils" THEN "resolved" ELSE "rejected"]
    /\ UNCHANGED <<rvars, cvars, castCall, metadata>>

\* Lines 32-35, the fulfilment callback: "finished" is logged.
LogThen ==
    /\ logCall.pc = "resolved"
    /\ logCall' = [logCall EXCEPT !.lines = Append(@, "finished"), !.pc = "finished"]
    /\ UNCHANGED <<rvars, cvars, castCall, metadata>>

----------------------------------------------------------------------------
(* The @Logger parameter decorator (src/decorators/log.decorator.ts) *)

\* A position of a binding list no descriptor was stored at.
UnsetDesc ==
    [hole |-> TRUE, decorator |-> "", type |-> <<>>, index |-> 0 - 1, name |-> "",
     path |-> <<>>, cast |-> FALSE]

\* getVariableName: the name of the parameter at the given position.
ParamNames == <<"p0", "p1", "p2", "p3", "p4", "p5">>

\* Lines 52-60, the descriptor written at position parameterIndex.  Each of
\* its six fields is set after the spread of the descriptor that was there, so
\* nothing of that one remains; null is <<>>.
loggerDesc(parameterIndex) ==
    [hole |-> FALSE, decorator |-> "LOGGER", type |-> <<>>, index |-> parameterIndex,
     name |-> ParamNames[parameterIndex + 1], path |-> <<>>, cast |-> FALSE]

\* Faulty variant: the descriptor is written into a new array every time.
Logger_newArray(md, parameterIndex) ==
    IF md.direct
    THEN [md EXCEPT !.paramMeta =
            <<[i \in 0..(IF parameterIndex + 1 > md.arity THEN parameterIndex
                          ELSE md.arity - 1) |->
                 IF i = parameterIndex THEN loggerDesc(parameterIndex) ELSE UnsetDesc]>>]
    ELSE [md EXCEPT !.loggerIndex = <<parameterIndex>>]

\* Lines 45-65.  For a class whose direct parent is BaseController the stored
\* list, or a new array of the method's length when there is none, gets the
\* descriptor at parameterIndex and is stored again; an index past the end
\* lengthens the array.  For any other class the index is stored under the
\* logger key.
Logger(md, parameterIndex) ==
    IF md.direct
    THEN LET paramMeta == IF md.paramMeta # <<>> THEN md.paramMeta[1]
                          ELSE [i \in 0..(md.arity - 1) |-> UnsetDesc]
         IN  [md EXCEPT !.paramMeta =
                 <<[i \in (DOMAIN paramMeta) \cup (0..parameterIndex) |->
                      IF i = parameterIndex THEN loggerDesc(parameterIndex)
                      ELSE IF i \in DOMAIN paramMeta THEN paramMeta[i]
                      ELSE UnsetDesc]>>]
    ELSE [md EXCEPT !.loggerIndex = <<parameterIndex>>]

\* A method of up to MaxParams declared parameters, of a class that is or is
\* not a direct subclass of BaseController, with nothing stored for it yet.
UndecoratedMethods ==
    [direct : BOOLEAN, arity : 0..MaxParams, paramMeta : {<<>>}, loggerIndex : {<<>>},
     applied : {<<>>}]

NoMetadata ==
    [direct |-> FALSE, arity |-> 0, paramMeta |-> <<>>, loggerIndex |-> <<>>,
     applied |-> <<>>]

\* @Logger() is applied to one parameter of the method; applied keeps the
\* positions it was applied to so far.
ApplyLogger ==
    /\ Len(metadata.applied) < MaxParams
    /\ \E parameterIndex \in 0..(MaxParams - 1) :
           metadata' = [Logger(metadata, parameterIndex) EXCEPT
                            !.applied = Append(@, parameterIndex)]
    /\ UNCHANGED <<rvars, cvars, castCall, logCall>>

----------------------------------------------------------------------------
(* getMiddleware *)

\* An options map is undefined (<<>>) or an object (<<f>>, f a function from
\* the identifiers that are its keys to their lists of options).
NoOptions == [endpointOptions |-> <<>>, controllerOptions |-> <<>>, threw |-> FALSE]

\* Lines 140-141 and 145-146: if (!map) map = { [mwSymbol]: [] }, then
\* map[mwSymbol].push(...list).  A map that exists without the key mwSymbol
\* makes push a call on undefined, a TypeError.
pushOptions(map, mwSymbol, list) ==
    IF map = <<>>
    THEN [map |-> <<[k \in {mwSymbol} |-> list]>>, threw |-> FALSE]
    ELSE IF mwSymbol \in DOMAIN map[1]
         THEN [map |-> <<[map[1] EXCEPT ![mwSymbol] = @ \o list]>>, threw |-> FALSE]
         ELSE [map |-> map, threw |-> TRUE]

\* Lines 136-148, the loop over the generator's identifiers.  The metadata of an
\* identifier is undefined (<<>>) or an object whose keys are method names and
\* the controller key; an empty array of options is truthy.
RECURSIVE collectOptions(_, _, _, _)
collectOptions(symbols, mwMeta, methodName, options) ==
    IF symbols = <<>> \/ options.threw THEN options
    ELSE LET mwSymbol == Head(symbols)
             meta == mwMeta[mwSymbol]
             ofEndpoint == IF meta # <<>> /\ meta[1].endpoint[methodName] # <<>>
                           THEN pushOptions(options.endpointOptions, mwSymbol,
                                            meta[1].endpoint[methodName][1])
                           ELSE [map |-> options.endpointOptions, threw |-> FALSE]
             ofController == IF ofEndpoint.threw
                             THEN [map |-> options.controllerOptions, threw |-> TRUE]
                             ELSE IF meta # <<>> /\ meta[1].controller # <<>>
                             THEN pushOptions(options.controllerOptions, mwSymbol,
                                              meta[1].controller[1])
                             ELSE [map |-> options.controllerOptions, threw |-> FALSE]
         IN  collectOptions(Tail(symbols), mwMeta, methodName,
                 [endpointOptions |-> ofEndpoint.map,
                  controllerOptions |-> ofController.map,
                  threw |-> ofController.threw])

\* The lists of middleware a generator may answer with, or keep.
GeneratedLists ==
    { <<>>, <<[kind |-> "middleware", of |-> "A"]>>,
      <<[kind |-> "middleware", of |-> "A"], [kind |-> "middleware", of |-> "B"]>> }

----------------------------------------------------------------------------
(* createEndpoints / createEndpoint *)

SubPaths ==
    TextsOf({kwGet, kwList, kwUpdate, kwDelete, kwCreate, <<"x">>, <<"/">>}, MaxWords)

BasePaths == { <<>>, <<"/">>, <<"a">>, <<"/", "a", "/">>, <<"/", "/", "a">> }

EndpointDescs ==
    [methodName : {"m1"}, path : SubPaths, method : {""} \cup RestMethods,
     autoResponse : BOOLEAN]

\* The controller descriptor is absent, is there with no base path, or has one.
Controllers ==
    [metaAbsent : {TRUE}, basePath : {<<>>}, endpoints : {<<ep>> : ep \in EndpointDescs},
     generator : {<<>>}, mwMeta : {<<>>}, sharesList : {FALSE}]
    \cup
    [metaAbsent : {FALSE}, basePath : {<<>>} \cup {<<b>> : b \in BasePaths},
     endpoints : {<<ep>> : ep \in EndpointDescs}, generator : {<<>>}, mwMeta : {<<>>}, sharesList : {FALSE}]

\* The controller whose endpoint serves the requests of Spec, already compiled.
ServedController ==
    [metaAbsent |-> FALSE, basePath |-> <<(<<"a">>)>>,
     endpoints |-> <<[methodName |-> "m1", path |-> kwGet, method |-> "", autoResponse |-> TRUE]>>,
     generator |-> <<>>, mwMeta |-> <<>>, sharesList |-> FALSE]

\* The names of the methods of a controller and of the identifiers of a
\* generator, in the order they are declared.
MethodNames == <<"m1", "m2", "m3", "m4">>
SymbolNames == <<"s1", "s2", "s3", "s4">>

\* The endpoint lists of at most n entries over the given descriptors; the
\* k-th endpoint decorates the k-th method.
RECURSIVE EndpointLists(_, _)
EndpointLists(descs, n) ==
    IF n = 0 THEN {<<>>}
    ELSE LET shorter == EndpointLists(descs, n - 1)
         IN  shorter \cup
             { Append(l, [methodName |-> MethodNames[Len(l) + 1], path |-> d.path,
                          method |-> d.method, autoResponse |-> d.autoResponse]) :
               l \in { x \in shorter : Len(x) = n - 1 }, d \in descs }

\* Controllers with several endpoints, some of them on the same verb and path.
RouteControllers ==
    [metaAbsent : {FALSE}, basePath : {<<(<<"a">>)>>},
     endpoints : EndpointLists([path : {kwGet, <<"x">>, <<"/", "x">>, <<"x", "/">>},
                                method : {"", "get", "post"},
                                autoResponse : {TRUE}], MaxEndpoints) \ {<<>>},
     generator : {<<>>}, mwMeta : {<<>>}, sharesList : {FALSE}]

\* What one annotation channel may hold for a member: nothing, an empty array
\* of options, or arrays of options.
OptionLists == { <<>>, <<(<<>>)>>, <<(<<"o1", "o2">>)>>, <<(<<"o3">>)>> }

\* The metadata stored under one middleware identifier: nothing, or an object
\* with the options of each method and of the controller.
SymbolMetas ==
    {<<>>} \cup { <<[endpoint |-> [m \in {"m1"} |-> e], controller |-> c]>> :
                    e \in OptionLists, c \in OptionLists }

\* The served controller built with no generator, or with a generator of up to
\* MaxSymbols identifiers and any metadata under each of them.
MiddlewareControllers ==
    {ServedController} \cup
    UNION { { [ServedController EXCEPT
                   !.generator = <<SubSeq(SymbolNames, 1, n)>>,
                   !.mwMeta = mwMeta] :
              mwMeta \in [{SymbolNames[j] : j \in 1..n} -> SymbolMetas] } :
            n \in 0..MaxSymbols }

\* Controllers of up to MaxEndpoints endpoints built with a generator of no
\* identifiers, which answers every call with a new list or with the one list
\* it keeps.
ChainControllers ==
    [metaAbsent : {FALSE}, basePath : {<<(<<"a">>)>>},
     endpoints : EndpointLists([path : {kwGet, <<"x">>}, method : {""},
                                autoResponse : {TRUE}], MaxEndpoints) \ {<<>>},
     generator : {<<(<<>>)>>}, mwMeta : {<<>>}, sharesList : BOOLEAN]

\* Lines 113-116: the dispatch handler of the endpoint is pushed onto the list
\* getMiddleware returned, and the list is registered under the verb and path.
registration(ctl, k, middleware) ==
    [verb |-> endpointVerb(ctl.endpoints[k]),
     path |-> endpointFullPath(ctl, ctl.endpoints[k]),
     methodName |-> ctl.endpoints[k].methodName,
     ep |-> k,
     chain |-> Append(middleware, [kind |-> "handler", of |-> ctl.endpoints[k].methodName])]

\* Lines 59-73 and 91-124, one turn of the loop of createEndpoints: the endpoint
\* is compiled and registered on the router.  Reading basePath of an absent
\* controller descriptor throws, and so may getMiddleware; the constructor ends
\* there.  With no generator getMiddleware returns a new empty list (line 132);
\* otherwise the generator is called once with the collected options and
\* answers with a list of middleware of its own choosing: a new list, or the
\* one list object it keeps.  Line 114 pushes the dispatch handler onto the
\* list it was given, so a kept list holds the handler from then on; line 116
\* registers the elements the list has at that moment.
CreateEndpoint ==
    /\ compile.pc = "compiling"
    /\ compile.i <= Len(controller.endpoints)
    /\ \/ /\ controller.metaAbsent
          /\ compile' = [compile EXCEPT !.pc = "failed"]
          /\ UNCHANGED <<router, generatorCalls, sharedList>>
       \/ /\ ~controller.metaAbsent
          /\ controller.generator = <<>>
          /\ router' = Append(router, registration(controller, compile.i, <<>>))
          /\ compile' = [compile EXCEPT !.i = @ + 1]
          /\ UNCHANGED <<generatorCalls, sharedList>>
       \/ /\ ~controller.metaAbsent
          /\ controller.generator # <<>>
          /\ LET methodName == controller.endpoints[compile.i].methodName
                 options == collectOptions(controller.generator[1], controller.mwMeta,
                                           methodName, NoOptions)
             IN  IF options.threw
                 THEN /\ compile' = [compile EXCEPT !.pc = "failed"]
                      /\ UNCHANGED <<router, generatorCalls, sharedList>>
                 ELSE /\ \E middleware \in (IF controller.sharesList THEN {sharedList}
                                             ELSE GeneratedLists) :
                             /\ generatorCalls' = Append(generatorCalls,
                                    [methodName |-> methodName,
                                     controllerOptions |-> options.controllerOptions,
                                     endpointOptions |-> options.endpointOptions,
                                     returned |-> middleware])
                             /\ router' = Append(router,
                                    registration(controller, compile.i, middleware))
                             /\ sharedList' =
                                    IF controller.sharesList
                                    THEN registration(controller, compile.i, middleware).chain
                                    ELSE sharedList
                      /\ compile' = [compile EXCEPT !.i = @ + 1]
    /\ UNCHANGED <<uvars, rvars, controller, app>>

\* Lines 75-76, after the loop: app.use(this.mainRoutePath, router).
Mount ==
    /\ compile.pc = "compiling"
    /\ compile.i > Len(controller.endpoints)
    /\ app' = Append(app, router)
    /\ compile' = [compile EXCEPT !.pc = "mounted"]
    /\ UNCHANGED <<uvars, rvars, controller, router, generatorCalls, sharedList>>

----------------------------------------------------------------------------
(* Initial state *)

IdleTask ==
    [pc |-> "idle", traceId |-> "", idx |-> 0, inputVars |-> newArray(0),
     pending |-> <<>>, payload |-> <<>>, chain |-> <<>>, endpointErr |-> <<>>,
     hooks |-> <<>>]

NoHistory ==
    [raised |-> <<>>, invoked |-> <<>>, extracted |-> <<>>, calls |-> <<>>, hookArgs |-> <<>>,
     settled |-> <<>>, unhandled |-> <<>>, escaped |-> <<>>, forwarded |-> <<>>]

\* The closures createEndpointFunc can build for one endpoint.
RoutesWith(hookCounts) ==
    [autoResponse : BOOLEAN, traceFn : BOOLEAN, metaAbsent : {FALSE},
     meta : MetaLists, bundleName : {"v1"}, path : {"/a/get"}, hooks : hookCounts]
    \cup
    [autoResponse : BOOLEAN, traceFn : BOOLEAN, metaAbsent : {TRUE},
     meta : {newArray(0)}, bundleName : {"v1"}, path : {"/a/get"}, hooks : hookCounts]

Routes == RoutesWith({0})

InitRequests ==
    /\ task = [r \in Req |-> IdleTask]
    /\ req = [r \in Req |-> [reef |-> [traceId |-> "", bundleName |-> "", other |-> "prior"]]]
    /\ res = [r \in Req |-> [header |-> <<>>, json |-> <<>>]]
    /\ log = [r \in Req |-> [warn |-> <<>>, error |-> <<>>, info |-> <<>>]]
    /\ nextCalls = [r \in Req |-> <<>>]
    /\ hist = [r \in Req |-> NoHistory]

\* One request served by a compiled endpoint.
Init ==
    /\ route \in Routes
    /\ live = {1}
    /\ InitRequests
    /\ controller = ServedController
    /\ compile = [pc |-> "mounted", i |-> 2]
    /\ router = <<registration(ServedController, 1, <<>>)>>
    /\ app = <<router>>
    /\ generatorCalls = <<>>
    /\ sharedList = <<>>
    /\ logCall = NoLogCall
    /\ metadata = NoMetadata
    /\ castCall = NoCast

\* One request served by an endpoint with pre-execution hooks attached.
InitHooks ==
    /\ route \in { rt \in RoutesWith(0..MaxHooks) : ~rt.traceFn }
    /\ live = {1}
    /\ InitRequests
    /\ controller = ServedController
    /\ compile = [pc |-> "mounted", i |-> 2]
    /\ router = <<registration(ServedController, 1, <<>>)>>
    /\ app = <<router>>
    /\ generatorCalls = <<>>
    /\ sharedList = <<>>
    /\ logCall = NoLogCall
    /\ metadata = NoMetadata
    /\ castCall = NoCast

\* Two requests to the same route are in flight together.  The route derives
\* its trace ids with generateCallStackId and binds at most one parameter.
InitConc ==
    /\ route \in { rt \in Routes : /\ ~rt.traceFn
                                   /\ ~rt.metaAbsent
                                   /\ MetaLen(rt.meta) = 1 }
    /\ live = {1, 2}
    /\ InitRequests
    /\ controller = ServedController
    /\ compile = [pc |-> "mounted", i |-> 2]
    /\ router = <<registration(ServedController, 1, <<>>)>>
    /\ app = <<router>>
    /\ generatorCalls = <<>>
    /\ sharedList = <<>>
    /\ logCall = NoLogCall
    /\ metadata = NoMetadata
    /\ castCall = NoCast

\* A parameter descriptor and a raw value, about to be cast.
InitCast ==
    /\ castCall \in [meta : ParamMetas, rawValue : RawValues, result : {<<>>}]
    /\ route = CHOOSE rt \in Routes : TRUE
    /\ live = {}
    /\ InitRequests
    /\ controller = ServedController
    /\ compile = [pc |-> "mounted", i |-> 2]
    /\ router = <<registration(ServedController, 1, <<>>)>>
    /\ app = <<router>>
    /\ generatorCalls = <<>>
    /\ sharedList = <<>>
    /\ logCall = NoLogCall
    /\ metadata = NoMetadata

\* A method wrapped by @Log is about to be called.
InitLog ==
    /\ logCall \in LogCalls
    /\ metadata = NoMetadata
    /\ castCall = NoCast
    /\ route = CHOOSE rt \in Routes : TRUE
    /\ live = {}
    /\ InitRequests
    /\ controller = ServedController
    /\ compile = [pc |-> "mounted", i |-> 2]
    /\ router = <<registration(ServedController, 1, <<>>)>>
    /\ app = <<router>>
    /\ generatorCalls = <<>>
    /\ sharedList = <<>>

\* A method whose parameters are about to be decorated with @Logger.
InitLogger ==
    /\ metadata \in UndecoratedMethods
    /\ castCall = NoCast
    /\ logCall = NoLogCall
    /\ route = CHOOSE rt \in Routes : TRUE
    /\ live = {}
    /\ InitRequests
    /\ controller = ServedController
    /\ compile = [pc |-> "mounted", i |-> 2]
    /\ router = <<registration(ServedController, 1, <<>>)>>
    /\ app = <<router>>
    /\ generatorCalls = <<>>
    /\ sharedList = <<>>

\* A controller with several endpoints is constructed.
InitRoutes ==
    /\ controller \in RouteControllers
    /\ compile = [pc |-> "compiling", i |-> 1]
    /\ router = <<>>
    /\ app = <<>>
    /\ generatorCalls = <<>>
    /\ sharedList = <<>>
    /\ logCall = NoLogCall
    /\ metadata = NoMetadata
    /\ castCall = NoCast
    /\ route = CHOOSE rt \in Routes : TRUE
    /\ live = {}
    /\ InitRequests

\* A controller with several endpoints is constructed with a generator.
InitChains ==
    /\ controller \in ChainControllers
    /\ compile = [pc |-> "compiling", i |-> 1]
    /\ router = <<>>
    /\ app = <<>>
    /\ generatorCalls = <<>>
    /\ sharedList \in (IF controller.sharesList THEN GeneratedLists ELSE {<<>>})
    /\ castCall = NoCast
    /\ logCall = NoLogCall
    /\ metadata = NoMetadata
    /\ route = CHOOSE rt \in Routes : TRUE
    /\ live = {}
    /\ InitRequests

\* A controller is constructed with a middleware generator.
InitMiddleware ==
    /\ controller \in MiddlewareControllers
    /\ compile = [pc |-> "compiling", i |-> 1]
    /\ router = <<>>
    /\ app = <<>>
    /\ generatorCalls = <<>>
    /\ sharedList = <<>>
    /\ logCall = NoLogCall
    /\ metadata = NoMetadata
    /\ castCall = NoCast
    /\ route = CHOOSE rt \in Routes : TRUE
    /\ live = {}
    /\ InitRequests

\* A controller is constructed: no route is registered yet and no request arrives.
InitCompile ==
    /\ controller \in Controllers
    /\ compile = [pc |-> "compiling", i |-> 1]
    /\ router = <<>>
    /\ app = <<>>
    /\ generatorCalls = <<>>
    /\ sharedList = <<>>
    /\ logCall = NoLogCall
    /\ metadata = NoMetadata
    /\ castCall = NoCast
    /\ route = CHOOSE rt \in Routes : TRUE
    /\ live = {}
    /\ InitRequests

----------------------------------------------------------------------------
(* actualEndpointController: the dispatch handler *)

\* Lines 188-215, a request arrives.  The trace id is derived before the try
\* block is entered; then the state bag is written and tackerFunc runs up to its
\* first await, that is, into getEndpointInputVars up to the first extractor call.
\* Nothing inside the try block throws synchronously (a failing async function
\* returns a rejected promise), so the catch block of lines 216-222 is not entered.
Dispatch(r) ==
    /\ r \in live
    /\ task[r].pc = "idle"
    /\ \/ \E tid \in TraceIds :
            LET m == effectiveMeta(route)
                lp == loopFrom(m, 0)
                more == lp.at < MetaLen(m)
            IN  /\ task' = [task EXCEPT ![r] =
                        [@ EXCEPT !.pc = IF more THEN "awaitParam" ELSE "extracted",
                                  !.traceId = tid,
                                  !.idx = lp.at,
                                  !.inputVars = newArray(MetaLen(m))]]
                /\ req' = [req EXCEPT ![r].reef =
                        [@ EXCEPT !.traceId = tid, !.bundleName = route.bundleName]]
                /\ log' = [log EXCEPT ![r].warn = @ \o lp.warns]
                /\ hist' = [hist EXCEPT ![r].invoked =
                        IF more THEN Append(@, lp.at) ELSE @]
                /\ UNCHANGED <<res, nextCalls>>
       \/ /\ route.traceFn
          /\ \E e \in Thrown :
                /\ task' = [task EXCEPT ![r].pc = "escaped"]
                /\ hist' = [hist EXCEPT ![r].raised = Append(@, [stage |-> "traceId", v |-> e]),
                                        ![r].escaped = Append(@, e)]
                /\ UNCHANGED <<req, res, log, nextCalls>>
    /\ UNCHANGED <<uvars, cvars, route, live>>

\* Faulty variant: a failing extractor is caught inside the loop, its position
\* is left unset and the loop runs on.
ParamSettle_swallow(r) ==
    /\ task[r].pc = "awaitParam"
    /\ LET m == effectiveMeta(route)
           p == task[r].idx
           lp == loopFrom(m, p + 1)
           more == lp.at < MetaLen(m)
       IN  /\ \/ \E v \in ArgVals :
                    /\ task' = [task EXCEPT ![r] =
                            [@ EXCEPT !.pc = IF more THEN "awaitParam" ELSE "extracted",
                                      !.idx = lp.at,
                                      !.inputVars = setInputVar(@, m[p], p, v)]]
                    /\ hist' = [hist EXCEPT
                            ![r].extracted = Append(@, [pos |-> p, index |-> m[p].index, v |-> v]),
                            ![r].invoked = IF more THEN Append(@, lp.at) ELSE @]
              \/ \E e \in Thrown :
                    /\ task' = [task EXCEPT ![r] =
                            [@ EXCEPT !.pc = IF more THEN "awaitParam" ELSE "extracted",
                                      !.idx = lp.at]]
                    /\ hist' = [hist EXCEPT
                            ![r].raised = Append(@, [stage |-> "extract", v |-> e]),
                            ![r].invoked = IF more THEN Append(@, lp.at) ELSE @]
           /\ log' = [log EXCEPT ![r].warn = @ \o lp.warns]
    /\ UNCHANGED <<uvars, cvars, route, live, req, res, nextCalls>>

\* Lines 322-331, the awaited extractor settles.  A value is stored and the loop
\* runs on to the next extractor call or to the return; a throw or a rejection
\* rejects getEndpointInputVars and with it tackerFunc.
ParamSettle(r) ==
    /\ task[r].pc = "awaitParam"
    /\ LET m == effectiveMeta(route)
           p == task[r].idx
       IN  \/ \E v \in ArgVals :
                LET lp == loopFrom(m, p + 1)
                    more == lp.at < MetaLen(m)
                IN  /\ task' = [task EXCEPT ![r] =
                            [@ EXCEPT !.pc = IF more THEN "awaitParam" ELSE "extracted",
                                      !.idx = lp.at,
                                      !.inputVars = setInputVar(@, m[p], p, v)]]
                    /\ log' = [log EXCEPT ![r].warn = @ \o lp.warns]
                    /\ hist' = [hist EXCEPT
                            ![r].extracted = Append(@, [pos |-> p, index |-> m[p].index, v |-> v]),
                            ![r].invoked = IF more THEN Append(@, lp.at) ELSE @]
           \/ \E e \in Thrown :
                /\ task' = [task EXCEPT ![r] = [@ EXCEPT !.pc = "tackerRejected", !.pending = <<e>>]]
                /\ hist' = [hist EXCEPT ![r].raised = Append(@, [stage |-> "extract", v |-> e])]
                /\ UNCHANGED log
    /\ UNCHANGED <<uvars, cvars, route, live, req, res, nextCalls>>

\* Faulty variant: the trace id is kept in a place every call of the dispatch
\* handler shares, so the header may carry the id another request derived.
headerTraceId_shared(r) ==
    IF \E q \in Req \ {r} : task[q].traceId # ""
    THEN task[CHOOSE q \in Req \ {r} : task[q].traceId # ""].traceId
    ELSE task[r].traceId

\* Line 208, the trace id written to the x-trace-id header: the constant of line
\* 189, local to this call of the dispatch handler.
headerTraceId(r) == task[r].traceId

\* Lines 204-211, tackerFunc after the await: the handler is invoked.  A
\* synchronous throw rejects tackerFunc.  Otherwise, with autoResponse the header
\* is written and handleResponse chains on the result; without it the result is
\* dropped and tackerFunc returns.
tackerAfterAwait(r, at) ==
    /\ task[r].pc = at
    /\ LET args == spreadArgs(task[r].inputVars)
       IN  \/ \E e \in Thrown :
                /\ task' = [task EXCEPT ![r] = [@ EXCEPT !.pc = "tackerRejected", !.pending = <<e>>]]
                /\ hist' = [hist EXCEPT ![r].calls = Append(@, args),
                                        ![r].raised = Append(@, [stage |-> "handlerThrow", v |-> e])]
                /\ UNCHANGED res
           \/ \E pl \in [kind : {"value"}, v : DataVals] \cup [kind : {"promise"}, v : {Undefined}] :
                /\ task' = [task EXCEPT ![r] =
                        [@ EXCEPT !.pc = IF route.autoResponse THEN "respPending"
                                         ELSE IF pl.kind = "promise" THEN "detached"
                                         ELSE "done",
                                  !.payload = <<pl>>]]
                /\ res' = [res EXCEPT ![r].header =
                        IF route.autoResponse THEN Append(@, headerTraceId(r)) ELSE @]
                /\ hist' = [hist EXCEPT ![r].calls = Append(@, args),
                                        ![r].settled = IF pl.kind = "value" THEN <<pl.v>> ELSE @]
    /\ log' = [log EXCEPT ![r].info = Append(@, "invoked")]
    /\ UNCHANGED <<uvars, cvars, route, live, req, nextCalls>>

TackerResume(r) == tackerAfterAwait(r, "extracted")

\* Lines 212-215, the .catch on tackerFunc's promise.  When handleResponseError
\* itself throws, the promise .catch returns is rejected and nothing observes it.
TackerCatch(r) ==
    /\ task[r].pc = "tackerRejected"
    /\ LET eff == handleResponseError(task[r].pending[1])
       IN  /\ log' = [log EXCEPT ![r].error = @ \o eff.errorLog]
           /\ nextCalls' = [nextCalls EXCEPT ![r] = @ \o eff.next]
           /\ hist' = [hist EXCEPT ![r].unhandled = @ \o eff.exc,
                                   ![r].forwarded = @ \o forwardedBy(task[r].pending[1], eff)]
    /\ task' = [task EXCEPT ![r].pc = "done"]
    /\ UNCHANGED <<uvars, cvars, route, live, req, res>>

\* autoResponse false: the promise the handler returned settles with nobody
\* awaiting it; its rejection is unhandled.
DetachedSettle(r) ==
    /\ task[r].pc = "detached"
    /\ \/ \E d \in DataVals :
            hist' = [hist EXCEPT ![r].settled = <<d>>]
       \/ \E e \in Thrown :
            hist' = [hist EXCEPT ![r].raised = Append(@, [stage |-> "handlerReject", v |-> e]),
                                 ![r].unhandled = Append(@, e)]
    /\ task' = [task EXCEPT ![r].pc = "done"]
    /\ UNCHANGED <<uvars, cvars, route, live, req, res, log, nextCalls>>

----------------------------------------------------------------------------
(* handleResponse: Promise.resolve(payload).then(..).catch(..).finally(..) *)

\* Faulty variant: a falsy result is not serialized (if (data) res.json(data)).
thenCallback_skipFalsy(data, thrown) ==
    IF ~Truthy(data)
    THEN [json |-> <<>>, errorLog |-> <<>>, next |-> <<>>, exc |-> <<>>, fwd |-> <<>>]
    ELSE IF thrown = <<>>
    THEN [json |-> <<[data |-> data, ok |-> TRUE]>>,
          errorLog |-> <<>>, next |-> <<>>, exc |-> <<>>, fwd |-> <<>>]
    ELSE [json |-> <<[data |-> data, ok |-> FALSE]>>,
          errorLog |-> handleResponseError(thrown[1]).errorLog,
          next |-> handleResponseError(thrown[1]).next,
          exc |-> handleResponseError(thrown[1]).exc,
          fwd |-> forwardedBy(thrown[1], handleResponseError(thrown[1]))]

\* Lines 249-255, the .then callback on the resolved data: res.json(data), and in
\* its catch block handleResponseError on what res.json threw (thrown is empty
\* when res.json returns).
thenCallback(data, thrown) ==
    IF thrown = <<>>
    THEN [json |-> <<[data |-> data, ok |-> TRUE]>>,
          errorLog |-> <<>>, next |-> <<>>, exc |-> <<>>, fwd |-> <<>>]
    ELSE LET eff == handleResponseError(thrown[1])
         IN  [json |-> <<[data |-> data, ok |-> FALSE]>>,
              errorLog |-> eff.errorLog, next |-> eff.next, exc |-> eff.exc,
              fwd |-> forwardedBy(thrown[1], eff)]

\* The payload settles.  Fulfilled, the .then callback runs; rejected, the
\* rejection passes through .then to the promise it returned.
ThenStep(r) ==
    /\ task[r].pc = "respPending"
    /\ LET pl == task[r].payload[1]
       IN  \/ \E d \in DataVals, thrown \in {<<>>} \cup {<<e>> : e \in Thrown} :
                /\ pl.kind = "value" => d = pl.v
                /\ LET eff == thenCallback(d, thrown)
                   IN  /\ res' = [res EXCEPT ![r].json = @ \o eff.json]
                       /\ log' = [log EXCEPT ![r].error = @ \o eff.errorLog]
                       /\ nextCalls' = [nextCalls EXCEPT ![r] = @ \o eff.next]
                       /\ task' = [task EXCEPT ![r] = [@ EXCEPT !.pc = "afterThen", !.chain = eff.exc]]
                       /\ hist' = [hist EXCEPT
                               ![r].settled = <<d>>,
                               ![r].forwarded = @ \o eff.fwd,
                               ![r].raised = IF thrown = <<>> THEN @
                                             ELSE Append(@, [stage |-> "json", v |-> thrown[1]])]
           \/ /\ pl.kind = "promise"
              /\ \E e \in Thrown :
                    /\ task' = [task EXCEPT ![r] = [@ EXCEPT !.pc = "afterThen", !.chain = <<e>>]]
                    /\ hist' = [hist EXCEPT ![r].raised = Append(@, [stage |-> "handlerReject", v |-> e])]
                    /\ UNCHANGED <<res, log, nextCalls>>
    /\ UNCHANGED <<uvars, cvars, route, live, req>>

\* Lines 256-259, the .catch callback, run only when the promise from .then is
\* rejected: it records endpointErr and forwards the error.
CatchStep(r) ==
    /\ task[r].pc = "afterThen"
    /\ IF task[r].chain = <<>>
       THEN /\ task' = [task EXCEPT ![r].pc = "afterCatch"]
            /\ UNCHANGED <<log, nextCalls, hist>>
       ELSE LET eff == handleResponseError(task[r].chain[1])
            IN  /\ task' = [task EXCEPT ![r] =
                        [@ EXCEPT !.pc = "afterCatch",
                                  !.endpointErr = task[r].chain,
                                  !.chain = eff.exc]]
                /\ log' = [log EXCEPT ![r].error = @ \o eff.errorLog]
                /\ nextCalls' = [nextCalls EXCEPT ![r] = @ \o eff.next]
                /\ hist' = [hist EXCEPT ![r].forwarded = @ \o forwardedBy(task[r].chain[1], eff)]
    /\ UNCHANGED <<uvars, cvars, route, live, req, res>>

\* Lines 260-272, the .finally callback: the completion log.  A rejection left
\* by .catch passes through and nothing observes it.
FinallyStep(r) ==
    /\ task[r].pc = "afterCatch"
    /\ log' = [log EXCEPT ![r].info = Append(@, finallyLog(task[r].endpointErr))]
    /\ hist' = [hist EXCEPT ![r].unhandled = @ \o task[r].chain]
    /\ task' = [task EXCEPT ![r].pc = "done"]
    /\ UNCHANGED <<uvars, cvars, route, live, req, res, nextCalls>>

----------------------------------------------------------------------------
(* Pre-execution hooks.  The dispatcher of base-controller.class.ts above runs  *)
(* none; the stage below is the one of the specification (section 4.3, step 4, *)
(* and section 5): between extraction and the handler call, every hook of the  *)
(* endpoint is started with the resolved arguments, and the handler waits for  *)
(* all of them.                                                                *)

\* What a hook may throw or reject with.
HookErrors == { ErrorObj("H1", "hook failed"), Prim("string", "boom") }

\* Faulty variant: the handler waits for one hook only (a race for an all).
allHooksDone_any(hooks) == \E h \in DOMAIN hooks : hooks[h] = "done"

\* The handler runs once every hook has completed.
allHooksDone(hooks) == \A h \in DOMAIN hooks : hooks[h] = "done"

\* Extraction is over: every hook is started, each given the resolved arguments.
HooksStart(r) ==
    /\ task[r].pc = "extracted"
    /\ LET started == [h \in 1..route.hooks |-> "running"]
       IN  task' = [task EXCEPT ![r] =
                [@ EXCEPT !.hooks = started,
                          !.pc = IF allHooksDone(started) THEN "hooksDone" ELSE "awaitHooks"]]
    /\ hist' = [hist EXCEPT ![r].hookArgs =
            [h \in 1..route.hooks |-> spreadArgs(task[r].inputVars)]]
    /\ UNCHANGED <<uvars, cvars, route, live, req, res, log, nextCalls>>

\* One running hook settles.  The first failure aborts the request with its
\* error; the last completion lets the handler run.  A hook still running after
\* an abort settles with no further effect.
HookSettle(r, h) ==
    /\ h \in DOMAIN task[r].hooks
    /\ task[r].hooks[h] = "running"
    /\ \/ LET after == [task[r].hooks EXCEPT ![h] = "done"]
          IN  /\ task' = [task EXCEPT ![r] =
                      [@ EXCEPT !.hooks = after,
                                !.pc = IF @ = "awaitHooks" /\ allHooksDone(after)
                                       THEN "hooksDone" ELSE @]]
              /\ UNCHANGED hist
       \/ \E e \in HookErrors :
              /\ task' = [task EXCEPT ![r] =
                      [@ EXCEPT !.hooks = [task[r].hooks EXCEPT ![h] = "failed"],
                                !.pc = IF @ = "awaitHooks" THEN "tackerRejected" ELSE @,
                                !.pending = IF task[r].pc = "awaitHooks" THEN <<e>> ELSE @]]
              /\ hist' = [hist EXCEPT ![r].raised = Append(@, [stage |-> "hook", v |-> e])]
    /\ UNCHANGED <<uvars, cvars, route, live, req, res, log, nextCalls>>

\* The handler call of the dispatcher, reached through the hook stage.
HookedResume(r) == tackerAfterAwait(r, "hooksDone")

----------------------------------------------------------------------------
(* Specification of the request dispatcher *)

Next ==
    \E r \in Req :
        \/ Dispatch(r)
        \/ ParamSettle(r)
        \/ TackerResume(r)
        \/ TackerCatch(r)
        \/ DetachedSettle(r)
        \/ ThenStep(r)
        \/ CatchStep(r)
        \/ FinallyStep(r)

Spec == Init /\ [][Next]_vars

----------------------------------------------------------------------------
(* Specification of the request dispatcher with the hook stage *)

NextHooks ==
    \E r \in Req :
        \/ Dispatch(r)
        \/ ParamSettle(r)
        \/ HooksStart(r)
        \/ \E h \in 1..MaxHooks : HookSettle(r, h)
        \/ HookedResume(r)
        \/ TackerCatch(r)
        \/ DetachedSettle(r)
        \/ ThenStep(r)
        \/ CatchStep(r)
        \/ FinallyStep(r)

SpecHooks == InitHooks /\ [][NextHooks]_vars

----------------------------------------------------------------------------
(* Specification of two requests dispatched concurrently *)

SpecConc == InitConc /\ [][Next]_vars

----------------------------------------------------------------------------
(* Specification of the endpoint compiler *)

NextCompile == CreateEndpoint \/ Mount

SpecCompile == InitCompile /\ [][NextCompile]_vars

SpecRoutes == InitRoutes /\ [][NextCompile]_vars

SpecMiddleware == InitMiddleware /\ [][NextCompile]_vars

SpecChains == InitChains /\ [][NextCompile]_vars

----------------------------------------------------------------------------
(* Specification of the caster registry *)

SpecCast == InitCast /\ [][Cast]_vars

----------------------------------------------------------------------------
(* Specification of a method wrapped by @Log *)

NextLog == LogInvoke \/ LogSettle \/ LogThen

SpecLog == InitLog /\ [][NextLog]_vars

----------------------------------------------------------------------------
(* Specification of the @Logger parameter decorator *)

SpecLogger == InitLogger /\ [][ApplyLogger]_vars

----------------------------------------------------------------------------
(* Properties of the request dispatcher *)

Done(r) == task[r].pc = "done"

\* The errors of request r raised at one of the given stages.
RaisedAt(r, stages) ==
    { i \in 1..Len(hist[r].raised) : hist[r].raised[i].stage \in stages }

CompletionLogs(r) ==
    SelectSeq(log[r].info, LAMBDA line : line \in {"responded", "threw"})

RequestStages == {"extract", "handlerThrow", "handlerReject", "json"}

\* C1: an error raised while serving a request, at parameter extraction, by a
\* synchronous throw of the handler, by a rejection of the handler's promise or
\* by response serialization, in either auto-response mode, is handed to next
\* exactly once: next is never called twice, and a finished request that raised
\* an Error has called it once.  (Stated for Error instances.)
C1_ForwardedExactlyOnce ==
    \A r \in Req :
        /\ Len(nextCalls[r]) <= 1
        /\ (Done(r) /\ \E i \in RaisedAt(r, RequestStages) :
                            instanceofError(hist[r].raised[i].v))
               => Len(nextCalls[r]) = 1

\* C2: every finished request has emitted exactly one completion log line,
\* whatever its outcome and with autoResponse true or false.
C2_OneCompletionLog ==
    \A r \in Req : Done(r) => Len(CompletionLogs(r)) = 1

\* C3: the success message 'endpoint responded.' is logged only when the response
\* was serialized and no error was forwarded to next; a request whose error was
\* forwarded logs the failure branch.
C3_SuccessLogOnlyOnSuccess ==
    \A r \in Req :
        \A i \in 1..Len(CompletionLogs(r)) :
            CompletionLogs(r)[i] = "responded"
                => /\ nextCalls[r] = <<>>
                   /\ \E j \in 1..Len(res[r].json) : res[r].json[j].ok

\* C5: the value handed to next is always an Error: an Error instance is
\* forwarded as the same object; any other caught value has been logged at error
\* level and is replaced by a new Error whose message is the stringified original.
C5_ForwardedIsNormalized ==
    \A r \in Req :
        \A i \in 1..Len(hist[r].forwarded) :
            LET f == hist[r].forwarded[i]
            IN  /\ instanceofError(f.sent)
                /\ instanceofError(f.caught) => f.sent = f.caught
                /\ ~instanceofError(f.caught)
                       => /\ f.sent.s = ToStringOf(f.caught)
                          /\ f.sent.id = "new"
                          /\ \E j \in 1..Len(log[r].error) : log[r].error[j] = ToStringOf(f.caught)

\* C6: no exception escapes the dispatch handler to its caller, whatever raises
\* it, the host-supplied trace-id function included.
C6_NothingEscapes ==
    \A r \in Req : hist[r].escaped = <<>> /\ task[r].pc # "escaped"

\* The handler's result of request r was fulfilled under autoResponse and the
\* response chain has run to its end.
RespondedCase(r) ==
    /\ route.autoResponse
    /\ Done(r)
    /\ hist[r].settled # <<>>

HeaderAndJsonOnce(r) ==
    /\ res[r].header = <<task[r].traceId>>
    /\ req[r].reef.traceId = task[r].traceId
    /\ Len(res[r].json) = 1
    /\ res[r].json[1].data = hist[r].settled[1]

\* C7 as stated: when autoResponse is true and the handler's result settles
\* successfully, x-trace-id is the request's trace id, res.json is called exactly
\* once with the resolved value, and next is not called.
C7_Original ==
    \A r \in Req :
        RespondedCase(r) => HeaderAndJsonOnce(r) /\ nextCalls[r] = <<>>

\* C7 amended: when autoResponse is true and the handler's result settles
\* successfully, x-trace-id is the request's trace id (the one in the state bag)
\* and res.json is called exactly once with the resolved value; next is not
\* called unless that res.json call throws, and then it is called exactly once.
C7_RespondsOnce ==
    \A r \in Req :
        RespondedCase(r)
            => /\ HeaderAndJsonOnce(r)
               /\ res[r].json[1].ok => nextCalls[r] = <<>>
               /\ ~res[r].json[1].ok => Len(nextCalls[r]) = 1

C7_Witness ==
    \E r \in Req :
        /\ RespondedCase(r)
        /\ task[r].payload[1].kind = "promise"
        /\ res[r].json = <<[data |-> Undefined, ok |-> TRUE]>>
        /\ res[r].header = <<req[r].reef.traceId>>

\* The handler of request r has been invoked.
Invoked(r) == hist[r].calls # <<>>

\* C8: for every binding list, in whatever order its descriptors are stored, the
\* argument array passed to the handler holds at position d.index the value that
\* descriptor d's extractor produced, for every descriptor d of the list.
C8_ArgsByIndex ==
    \A r \in Req :
        Invoked(r)
            => LET m == effectiveMeta(route)
                   args == hist[r].calls[1]
               IN  \A p \in DOMAIN m :
                       ~m[p].hole
                           => \E i \in 1..Len(hist[r].extracted) :
                                  /\ hist[r].extracted[i].pos = p
                                  /\ m[p].index \in DOMAIN args
                                  /\ args[m[p].index] = hist[r].extracted[i].v

\* A handler call on a list stored as indices [2, 0, 1] whose three extractors
\* did not all produce the same value.
C8_Witness ==
    \E r \in Req :
        /\ Invoked(r)
        /\ ~route.metaAbsent
        /\ MetaLen(route.meta) = 3
        /\ route.meta[0] = Desc(2) /\ route.meta[1] = Desc(0) /\ route.meta[2] = Desc(1)
        /\ hist[r].calls[1][2] = "a" /\ hist[r].calls[1][0] = "b"

HolePositions(m) == { p \in DOMAIN m : m[p].hole }

RECURSIVE ascending(_)
ascending(S) ==
    IF S = {} THEN <<>>
    ELSE LET lo == CHOOSE x \in S : \A y \in S : x <= y
         IN  <<lo>> \o ascending(S \ {lo})

\* C9: a hole in the binding list, or an absent list, raises no error: once
\* extraction is over one warning has been logged per hole, a request whose
\* extractors all succeeded invokes the handler, and the handler sees undefined
\* at each hole and the extracted value at every other position.
C9_HolesAreNotErrors ==
    \A r \in Req :
        LET m == effectiveMeta(route)
        IN  /\ (task[r].pc \in {"extracted", "respPending", "afterThen", "afterCatch", "detached"}
                    \/ Invoked(r))
                => log[r].warn = ascending(HolePositions(m))
            /\ (Done(r) /\ RaisedAt(r, {"extract"}) = {}) => Invoked(r)
            /\ Invoked(r)
                => /\ Len(hist[r].calls) = 1
                   /\ DOMAIN hist[r].calls[1] = DOMAIN m
                   /\ \A p \in DOMAIN m :
                        IF m[p].hole
                        THEN hist[r].calls[1][p] = "undefined"
                        ELSE \E i \in 1..Len(hist[r].extracted) :
                                /\ hist[r].extracted[i].index = p
                                /\ hist[r].calls[1][p] = hist[r].extracted[i].v

\* A handler call on a list with a hole followed by a descriptor.
C9_Witness ==
    \E r \in Req :
        /\ Invoked(r)
        /\ \E p, q \in DOMAIN effectiveMeta(route) :
              /\ p < q
              /\ effectiveMeta(route)[p].hole
              /\ ~effectiveMeta(route)[q].hole
              /\ hist[r].calls[1][p] = "undefined"
              /\ hist[r].calls[1][q] \in ArgVals
        /\ Len(log[r].warn) >= 1

\* A handler call for an endpoint whose binding list is absent.
C9_WitnessAbsent ==
    \E r \in Req : Invoked(r) /\ route.metaAbsent /\ log[r].warn = <<>>

----------------------------------------------------------------------------
(* Properties of the hook stage *)

\* Every extractor of the binding list has produced its value.
AllExtracted(r) ==
    /\ RaisedAt(r, {"extract"}) = {}
    /\ \A p \in DOMAIN effectiveMeta(route) :
          ~effectiveMeta(route)[p].hole
              => \E i \in 1..Len(hist[r].extracted) : hist[r].extracted[i].pos = p

FirstHookError(r) ==
    hist[r].raised[CHOOSE i \in RaisedAt(r, {"hook"}) :
                        \A j \in RaisedAt(r, {"hook"}) : i <= j].v

\* C10: the pre-execution hooks of an endpoint are started only after parameter
\* extraction has finished, all together and each with the resolved arguments;
\* the handler is invoked only when all of them have completed; when a hook
\* fails the handler is never invoked and the request is aborted with the error
\* of the hook that failed first.
C10_HooksBeforeHandler ==
    \A r \in Req :
        /\ task[r].hooks # <<>>
               => /\ AllExtracted(r)
                  /\ Len(task[r].hooks) = route.hooks
                  /\ \A h \in 1..route.hooks :
                        hist[r].hookArgs[h] = spreadArgs(task[r].inputVars)
        /\ Invoked(r)
               => /\ Len(task[r].hooks) = route.hooks
                  /\ \A h \in 1..route.hooks : task[r].hooks[h] = "done"
                  /\ hist[r].calls[1] = spreadArgs(task[r].inputVars)
        /\ RaisedAt(r, {"hook"}) # {}
               => /\ ~Invoked(r)
                  /\ task[r].pc \in {"tackerRejected", "done"}
                  /\ task[r].pending = <<FirstHookError(r)>>
                  /\ (Done(r) /\ ~ToStringThrows(FirstHookError(r)))
                         => /\ Len(hist[r].forwarded) = 1
                            /\ hist[r].forwarded[1].caught = FirstHookError(r)

\* The handler is invoked after two hooks, which ran at the same time, completed.
C10_Witness ==
    \E r \in Req :
        /\ Invoked(r)
        /\ route.hooks = 2
        /\ task[r].hooks = <<"done", "done">>
        /\ Len(hist[r].extracted) >= 1

\* A request aborted by a failing hook while the other hook was still running.
C10_WitnessAbort ==
    \E r \in Req :
        /\ Done(r)
        /\ ~Invoked(r)
        /\ task[r].hooks = <<"running", "failed">>
        /\ Len(nextCalls[r]) = 1

----------------------------------------------------------------------------
(* Properties of the endpoint compiler *)

\* The verb of the first matching rule, in the order get/list, update, delete,
\* create.
firstMatchVerb(path) ==
    IF includes(path, kwGet) \/ includes(path, kwList) THEN "GET"
    ELSE IF includes(path, kwUpdate) THEN "PATCH"
    ELSE IF includes(path, kwDelete) THEN "DELETE"
    ELSE "POST"

\* C4: an endpoint that declares no verb is registered with the verb of the
\* first matching rule in the order: contains "get" or "list" -> GET, contains
\* "update" -> PATCH, contains "delete" -> DELETE, contains "create" -> POST,
\* otherwise POST; so every sub-path containing "get" or "list" compiles to GET.
C4_FirstMatchVerb ==
    \A k \in 1..Len(router) :
        controller.endpoints[router[k].ep].method = ""
            => router[k].verb = firstMatchVerb(controller.endpoints[router[k].ep].path)

----------------------------------------------------------------------------
(* Order of extraction and handler call *)

\* The positions of a sequence of extraction records.
PositionsOf(extracted) == [i \in 1..Len(extracted) |-> extracted[i].pos]

\* C19: within one request the handler is invoked at most once and only after
\* every extractor of the binding list has been invoked, in ascending list
\* order and one at a time, and has settled successfully; if an extractor
\* throws or rejects, no later extractor is invoked, the handler is never
\* invoked, and neither the x-trace-id header nor a response body is written.
C19_ExtractThenHandler ==
    \A r \in Req :
        LET m == effectiveMeta(route)
            bound == ascending(DOMAIN m \ HolePositions(m))
            invoked == hist[r].invoked
            settled == PositionsOf(hist[r].extracted)
            failed == RaisedAt(r, {"extract"}) # {}
        IN  /\ Len(hist[r].calls) <= 1
            /\ invoked = SubSeq(bound, 1, Len(invoked))
            /\ settled = SubSeq(invoked, 1, Len(settled))
            /\ Len(invoked) <= Len(settled) + 1
            /\ Invoked(r) => (settled = bound /\ ~failed)
            /\ failed
                   => /\ Len(invoked) = Len(settled) + 1
                      /\ ~Invoked(r)
                      /\ res[r].header = <<>>
                      /\ res[r].json = <<>>

\* The handler is invoked after three extractors ran one after the other.
C19_Witness ==
    \E r \in Req :
        /\ Invoked(r)
        /\ hist[r].invoked = <<0, 1, 2>>
        /\ PositionsOf(hist[r].extracted) = <<0, 1, 2>>

\* The second of three extractors failed and the request has ended: the third
\* was never invoked, no handler call, no header, no body.
C19_WitnessFailed ==
    \E r \in Req :
        /\ Done(r)
        /\ RaisedAt(r, {"extract"}) # {}
        /\ MetaLen(effectiveMeta(route)) = 3
        /\ hist[r].invoked = <<0, 1>>
        /\ ~Invoked(r)

----------------------------------------------------------------------------
(* Properties of concurrent requests *)

\* Request r has derived its trace id: the dispatch handler is running or has run.
Started(r) == task[r].traceId # ""

\* Every value of the argument array of request r is a value an extractor of
\* request r produced, stored at that descriptor's index.
OwnArgs(r, args) ==
    \A i \in DOMAIN args :
        \/ args[i] = "undefined"
        \/ \E x \in 1..Len(hist[r].extracted) :
               /\ hist[r].extracted[x].index = i
               /\ hist[r].extracted[x].v = args[i]

\* What request r alone owns: its state bag and its argument array.
OwnState(r) == <<req[r], task[r].inputVars>>

\* C11: when two requests to the same route are in flight together, whatever
\* the interleaving at the awaits, each handler call receives only arguments
\* extracted from its own request, each state bag holds its own request's trace
\* id and the bundle name, the x-trace-id header of each response is that
\* request's trace id, and no step of one request changes the state bag or the
\* argument array of the other.
C11_RequestsIsolated ==
    /\ [](\A r \in Req :
            /\ Started(r)
                   => req[r].reef = [traceId |-> task[r].traceId,
                                     bundleName |-> route.bundleName,
                                     other |-> "prior"]
            /\ OwnArgs(r, spreadArgs(task[r].inputVars))
            /\ \A c \in 1..Len(hist[r].calls) : OwnArgs(r, hist[r].calls[c])
            /\ \A h \in 1..Len(res[r].header) : res[r].header[h] = task[r].traceId)
    /\ [][\A r \in Req :
            (\E q \in Req \ {r} : task'[q] # task[q]) => OwnState(r)' = OwnState(r)]_vars

\* Both requests are between handler call and response at the same time, with
\* different trace ids and different arguments, and both headers are written.
C11_Witness ==
    /\ task[1].pc = "respPending" /\ task[2].pc = "respPending"
    /\ task[1].traceId # task[2].traceId
    /\ hist[1].calls # hist[2].calls
    /\ Len(res[1].header) = 1 /\ Len(res[2].header) = 1

\* C12: a controller with no base path, its controller descriptor absent or
\* the descriptor's basePath unset, fails compilation fatally: none of its
\* routes is registered or mounted.
C12_NoBasePathNoRoute ==
    (controller.metaAbsent \/ controller.basePath = <<>>)
        => (router = <<>> /\ app = <<>> /\ compile.pc # "mounted")

\* C14: for every base path and sub-path, the empty one and those with
\* leading, trailing or repeated separators included, the registered route path
\* begins with exactly one "/", holds no two consecutive "/", and is left
\* unchanged by a second normalization.
C14_PathNormalized ==
    \A k \in 1..Len(router) :
        LET p == router[k].path
        IN  /\ p # <<>>
            /\ p[1] = "/"
            /\ \A i \in 1..(Len(p) - 1) : ~(p[i] = "/" /\ p[i + 1] = "/")
            /\ collapseSlashes(<<"/">> \o p) = p

\* A route registered from the base path "//a" and the sub-path "//x".
C14_Witness ==
    \E k \in 1..Len(router) :
        /\ controller.basePath = <<(<<"/", "/", "a">>)>>
        /\ controller.endpoints[router[k].ep].path = <<"/", "/", "x">>
        /\ router[k].path = <<"/", "a", "/", "x">>

\* A route registered from an empty base path and an empty sub-path.
C14_WitnessEmpty ==
    \E k \in 1..Len(router) :
        /\ controller.basePath = <<(<<>>)>>
        /\ controller.endpoints[router[k].ep].path = <<>>
        /\ router[k].path = <<"/">>

\* C13: every registered pair of verb and full path has exactly one dispatch
\* handler; when two endpoint descriptors of a controller resolve to the same
\* verb and full path, compilation fails with a configuration error instead of
\* registering both.
C13_NoDuplicateRoutes ==
    \A j, k \in 1..Len(router) :
        (router[j].verb = router[k].verb /\ router[j].path = router[k].path) => j = k

----------------------------------------------------------------------------
(* Properties of getMiddleware *)

\* The options the metadata of identifier mwSymbol holds under key (a method
\* name, or "controller" for the controller key): <<>> when there are none.
attached(mwSymbol, scope, methodName) ==
    LET meta == controller.mwMeta[mwSymbol]
    IN  IF meta = <<>> THEN <<>>
        ELSE IF scope = "controller" THEN meta[1].controller
        ELSE meta[1].endpoint[methodName]

\* The options map holds under every identifier of the generator the options
\* attached under it, in their order.
HoldsAttached(map, scope, methodName) ==
    \A j \in 1..Len(controller.generator[1]) :
        LET mwSymbol == controller.generator[1][j]
            opts == attached(mwSymbol, scope, methodName)
        IN  opts # <<>>
                => /\ map # <<>>
                   /\ mwSymbol \in DOMAIN map[1]
                   /\ map[1][mwSymbol] = opts[1]

\* getMiddleware of the generator was called once for each registered endpoint,
\* with the options attached to that endpoint and to the controller.
CalledWithAttached ==
    /\ Len(generatorCalls) = Len(router)
    /\ \A k \in 1..Len(generatorCalls) :
           /\ generatorCalls[k].methodName = router[k].methodName
           /\ HoldsAttached(generatorCalls[k].endpointOptions, "endpoint",
                            router[k].methodName)
           /\ HoldsAttached(generatorCalls[k].controllerOptions, "controller",
                            router[k].methodName)

\* C20: for every middleware-kind identifier the generator returns, however
\* many there are, the endpoint-scope options attached under it appear in order
\* under it in the endpoint options map passed to getMiddleware, and the
\* controller-scope options likewise; the collection succeeds without error
\* when two or more identifiers carry options; getMiddleware is called exactly
\* once per endpoint; with no generator the chain has no generated middleware.
C20_OptionsCollected ==
    /\ compile.pc # "failed"
    /\ controller.generator # <<>> => CalledWithAttached
    /\ controller.generator = <<>>
           => /\ generatorCalls = <<>>
              /\ \A k \in 1..Len(router) : Len(router[k].chain) = 1

----------------------------------------------------------------------------
(* Properties of the caster registry *)

\* cast has been called and has ended.
CastDone == castCall.result # <<>>

\* The coercion of the declared type is the one that runs: the cast flag is
\* set, the raw value is defined and is not an instance of the type.
Coerced(type) ==
    /\ CastDone
    /\ castCall.meta.cast
    /\ castCall.meta.type = <<type>>
    /\ castCall.rawValue # jsUndefined
    /\ ~instanceOf(castCall.rawValue, type)

\* The call ended with invalid_param_type carrying the parameter name and the
\* declared type.
RaisedInvalidParamType ==
    castCall.result[1] =
        Throw("invalid_param_type", castCall.meta.name, castCall.meta.type[1])

\* C15: cast returns rawValue unchanged, without raising, when the cast flag is
\* false, when no coercion is registered for the declared type (a null type
\* with cast true included), when rawValue is already an instance of the
\* declared type, and when rawValue is undefined.
C15_PassThrough ==
    LET meta == castCall.meta
        passes == \/ ~meta.cast
                  \/ meta.type = <<>>
                  \/ meta.type[1] \notin {"Number", "Boolean"}
                  \/ instanceOf(castCall.rawValue, meta.type[1])
                  \/ castCall.rawValue = jsUndefined
    IN  (CastDone /\ passes) => castCall.result[1] = Return(castCall.rawValue)

\* A number, or a string that is a run of decimal digits with an optional sign
\* and optional white space around it.
IsNumeric(v) ==
    \/ v.t = "number"
    \/ /\ v.t = "string"
       /\ LET t == trim(v.str)
              digits == IF t # <<>> /\ t[1] \in {"-", "+"} THEN Tail(t) ELSE t
          IN  digits # <<>> /\ \A i \in DOMAIN digits : isDigit(digits[i])

\* C16: for a Number-typed binding with cast = true, cast returns the numeric
\* value of every numeric input ("42" gives 42) and raises invalid_param_type
\* with the parameter name and the declared type for every non-numeric input
\* ("abc", the empty string, a white-space-only string): never cannot_cast,
\* never a number.
C16_NumberCast ==
    Coerced("Number")
        => IF IsNumeric(castCall.rawValue)
           THEN /\ castCall.result[1].kind = "return"
                /\ castCall.result[1].v.t = "number"
                /\ castCall.rawValue = jsStr(<<"4", "2">>)
                       => castCall.result[1].v = jsNum(42)
           ELSE RaisedInvalidParamType

\* The text a string or number input is compared by, in lower case.
ComparedText(v) ==
    IF v.t = "string" THEN [i \in DOMAIN v.str |-> lowerChar(v.str[i])]
    ELSE IF v.t = "number" /\ v.num \in 0..9 THEN <<Digits[v.num + 1]>>
    ELSE <<>>

C17_WitnessRefused ==
    /\ Coerced("Boolean")
    /\ castCall.rawValue = jsNum(2)
    /\ RaisedInvalidParamType

----------------------------------------------------------------------------
(* Properties of @Log *)

\* The invocation has ended: the method threw, or its result has settled and
\* the wrapper has nothing left to run.
LogEnded == logCall.pc \in {"threw", "rejected", "finished"}

\* C18: for every invocation of a method wrapped by @Log, "invoked" is logged
\* exactly once before the method body runs and "finished" exactly once after
\* the invocation has ended, whether the method returns a value, returns a
\* promise that fulfils, returns a promise that rejects, or throws; "finished"
\* is never logged before the result has settled.
C18_InvokedThenFinished ==
    /\ logCall.passed # <<>> => (logCall.lines # <<>> /\ logCall.lines[1] = "invoked")
    /\ LogEnded => logCall.lines = <<"invoked", "finished">>
    /\ ~LogEnded => logCall.lines \in {<<>>, <<"invoked">>}

----------------------------------------------------------------------------
(* Properties of the handler chain *)

\* The dispatch handler of the endpoint that decorates method methodName.
HandlerOf(methodName) == [kind |-> "handler", of |-> methodName]

\* C21: for every endpoint of every compiled controller, the handler chain
\* registered with the router is the middleware the generator returned for
\* that endpoint, in the order returned, followed by exactly one dispatch
\* handler, the endpoint's own, as the last element; this holds for every
\* sequence of endpoint compilations, also when the generator returns the same
\* list object for several endpoints, so no chain holds the dispatch handler
\* of another endpoint.
C21_ChainEndsWithOwnHandler ==
    \A k \in 1..Len(router) :
        LET chain == router[k].chain
            before == SubSeq(chain, 1, Len(chain) - 1)
        IN  /\ chain # <<>>
            /\ chain[Len(chain)] = HandlerOf(router[k].methodName)
            /\ \A i \in DOMAIN before : before[i].kind = "middleware"
            /\ controller.generator = <<>> => before = <<>>
            /\ controller.generator # <<>> => before = generatorCalls[k].returned

----------------------------------------------------------------------------
(* Properties of @Logger *)

\* The positions @Logger was applied to.
DecoratedPositions == { metadata.applied[a] : a \in DOMAIN metadata.applied }

\* The descriptor is a LOGGER descriptor for position i.
IsLoggerAt(d, i) ==
    /\ ~d.hole
    /\ d.decorator = "LOGGER"
    /\ d.index = i
    /\ d.cast = FALSE
    /\ d.type = <<>>

\* The stored binding list holds a LOGGER descriptor at every decorated
\* position, and no two of its descriptors share an index.
LoggerListStored ==
    /\ metadata.paramMeta # <<>>
    /\ LET list == metadata.paramMeta[1]
       IN  /\ \A i \in DecoratedPositions : i \in DOMAIN list /\ IsLoggerAt(list[i], i)
           /\ \A p, q \in DOMAIN list :
                  (~list[p].hole /\ ~list[q].hole /\ list[p].index = list[q].index) => p = q

\* One application: the positions the list already had, other than the one
\* decorated now, keep their descriptors, and for a direct subclass the logger
\* key is not written, for any other class the list is not.
LoggerFrame ==
    metadata'.applied # metadata.applied
        => LET at == metadata'.applied[Len(metadata'.applied)]
           IN  IF metadata.direct
               THEN /\ metadata'.loggerIndex = metadata.loggerIndex
                    /\ metadata.paramMeta # <<>>
                           => \A j \in (DOMAIN metadata.paramMeta[1]) \ {at} :
                                  metadata'.paramMeta[1][j] = metadata.paramMeta[1][j]
               ELSE /\ metadata'.paramMeta = metadata.paramMeta
                    /\ metadata'.loggerIndex = <<at>>

C22_WitnessOther ==
    /\ ~metadata.direct
    /\ metadata.applied = <<1, 0>>
    /\ metadata.loggerIndex = <<0>>
    /\ metadata.paramMeta = <<>>

====
